---- MODULE Spec2Model ----
(***************************************************************************)
(* Model of server.py: six MCP tools over a lazily created, process-wide   *)
(* Stockfish handle and the Lichess HTTP API.  Every tool invocation is an  *)
(* asyncio task; a task gives up control only at an `await` of an external  *)
(* collaborator (engine launch, engine request, HTTP request), so each      *)
(* action below runs one task from one suspension point to the next.        *)
(* The rules library, the engine and the remote service are collaborators:  *)
(* their answers are inputs drawn from small sets.                          *)
(***************************************************************************)
EXTENDS Integers, Sequences, FiniteSets, TLC

\* ---------------------------------------------------------------- bounds
NumTasks == 2        \* concurrently running tool invocations
MaxLaunches == 2     \* engine launches attempted in one run
MaxLines == 2        \* lines of an NDJSON response body
MaxDepth == 26       \* largest depth a caller asks for (above the ceiling)

\* ------------------------------------------------------ program constants
DepthCeiling == 25   \* min(depth, 25)
DefaultDepth == 18   \* os.getenv("STOCKFISH_DEPTH", "18")
GamesCeiling == 50   \* min(max_games, 50)
DefaultGames == 10   \* max_games: int = 10

Tasks == 1..NumTasks
Handles == 1..MaxLaunches

\* ------------------------------------------------ inputs and collaborators
KingsFen == "8/8/8/8/8/8/8/K6k w - - 0 1"
BadFen == "not a fen"
Fens == {KingsFen, BadFen}

MovesUci == {"a1a2", "a1a3", "zz"}

Unset == "<None>"                    \* os.getenv gives None
Tokens == {Unset, "", "lip_abc"}
DepthConfigs == {DefaultDepth, MaxDepth}
Depths == {1, DepthCeiling, MaxDepth}
Username == "alice"
GameCounts == {DefaultGames, GamesCeiling + 1}

\* chess.Board(fen) raises ValueError unless the text parses
BoardParses(fen) == fen = KingsFen

\* chess.Move.from_uci(move_uci) raises unless the text is a coordinate move
MoveParses(m) == m \in {"a1a2", "a1a3"}

\* board.legal_moves, in the library's enumeration order
LegalMovesUci(fen) == IF fen = KingsFen THEN <<"a1b2", "a1a2", "a1b1">> ELSE <<>>

Range(s) == {s[i] : i \in DOMAIN s}

\* board.san(move)
San(fen, m) ==
  CASE m = "a1b2" -> "Kb2"
    [] m = "a1a2" -> "Ka2"
    [] m = "a1b1" -> "Kb1"
    [] OTHER -> "?"

\* board.push(move); board.fen()
FenAfter(fen, m) ==
  CASE m = "a1b2" -> "8/8/8/8/8/8/1K6/7k b - - 1 1"
    [] m = "a1a2" -> "8/8/8/8/8/8/K7/7k b - - 1 1"
    [] m = "a1b1" -> "8/8/8/8/8/8/8/1K5k b - - 1 1"
    [] OTHER -> fen

\* "white" if board.turn else "black"
Turn(fen) == "white"

\* ---------------------------------------------------------------- state
VARIABLES
  engine,          \* the module global: 0 is None, else the cached handle
  launches,        \* popen_uci calls made so far
  procs,           \* engine processes that were started and not stopped
  quits,           \* quit requests issued, per handle
  phase,           \* "running" | "exited"
  LICHESS_TOKEN,   \* os.getenv("LICHESS_TOKEN")
  STOCKFISH_DEPTH, \* int(os.getenv("STOCKFISH_DEPTH", "18"))
  inv              \* the tool invocations (asyncio tasks), per slot

vars == <<engine, launches, procs, quits, phase, LICHESS_TOKEN, STOCKFISH_DEPTH, inv>>

NoResp == [status |-> 0, lines |-> <<>>]

\* A slot with no invocation in it.
Idle ==
  [pc |-> "idle", tool |-> "none", fen |-> "", given |-> FALSE, depth |-> 0,
   move |-> "", handle |-> 0, sent |-> 0, max |-> 0, ext |-> {}, fault |-> "none",
   ret |-> <<>>, resp |-> NoResp]

Init ==
  /\ engine = 0
  /\ launches = 0
  /\ procs = {}
  /\ quits = [h \in Handles |-> 0]
  /\ phase = "running"
  /\ LICHESS_TOKEN \in Tokens
  /\ STOCKFISH_DEPTH \in DepthConfigs
  /\ inv = [t \in Tasks |-> Idle]

\* ------------------------------------------------------ exception handling
\* isinstance(e, cls) for the exception classes the handlers name
IsInstance(exc, cls) == cls = "Exception" \/ cls = exc

\* ToolExcept with `except ValueError` in place of `except Exception`.
ToolExceptNarrow(tool, exc, msg, username) ==
  IF IsInstance(exc, "ValueError")
  THEN [pc |-> "returned",
        ret |-> IF tool = "validate_move" THEN [is_legal |-> FALSE, error |-> msg]
                ELSE [error |-> msg]]
  ELSE [pc |-> "raised", ret |-> <<>>]

\* The except clauses at the boundary of each tool: the outcome of an
\* exception of class exc, message msg, raised inside the tool's try block.
ToolExcept(tool, exc, msg, username) ==
  CASE tool = "validate_move" ->
         IF IsInstance(exc, "Exception")
         THEN [pc |-> "returned", ret |-> [is_legal |-> FALSE, error |-> msg]]
         ELSE [pc |-> "raised", ret |-> <<>>]
    [] tool = "fetch_user_games" ->
         IF IsInstance(exc, "HTTPStatusError")
         THEN [pc |-> "returned", ret |-> [error |-> "HTTP error", details |-> msg]]
         ELSE IF IsInstance(exc, "Exception")
         THEN [pc |-> "returned",
               ret |-> [error |-> msg, error_type |-> exc, username |-> username]]
         ELSE [pc |-> "raised", ret |-> <<>>]
    [] OTHER ->
         IF IsInstance(exc, "Exception")
         THEN [pc |-> "returned", ret |-> [error |-> msg]]
         ELSE [pc |-> "raised", ret |-> <<>>]

\* The slot after its tool raised exc because of the delegate failure f.
Raised(r, exc, msg, f) ==
  LET o == ToolExcept(r.tool, exc, msg, Username)
  IN  [r EXCEPT !.pc = o.pc, !.ret = o.ret, !.fault = f]

\* The slot after its tool returned mapping m.
Returned(r, m) == [r EXCEPT !.pc = "returned", !.ret = m]

\* ------------------------------------------------------------ the engine
\* if depth is None: depth = STOCKFISH_DEPTH
EffectiveDepth(given, depth, default) == IF given THEN depth ELSE default

\* ActualDepth without the ceiling.
ActualDepthUnclamped(depth) == depth

\* actual_depth = min(depth, 25)
ActualDepth(depth) == IF depth < DepthCeiling THEN depth ELSE DepthCeiling

\* What engine.analyse / engine.play answer when they answer.
AnalysisInfo == [cp |-> 0, pv |-> <<"a1b2", "h1g2">>]
PlayResult == [move |-> "a1b2", from_square |-> "a1", to_square |-> "b2"]

\* The success mapping of analyze_position.
AnalysisResponse(fen, info, depth, actual_depth) ==
  [fen |-> fen,
   evaluation |-> [type |-> "centipawns", value |-> info.cp],
   best_move |-> IF Len(info.pv) > 0 THEN info.pv[1] ELSE "None",
   principal_variation |-> SubSeq(info.pv, 1, IF Len(info.pv) < 5 THEN Len(info.pv) ELSE 5),
   depth |-> actual_depth,
   turn |-> Turn(fen)]

\* The success mapping of get_best_move.
BestMoveResponse(fen, res) ==
  [best_move_uci |-> res.move,
   best_move_san |-> San(fen, res.move),
   from_square |-> res.from_square,
   to_square |-> res.to_square,
   fen |-> fen]

\* The limit a tool passes with its engine request.
LimitDepth(r, default) ==
  IF r.tool = "analyze_position"
  THEN ActualDepth(EffectiveDepth(r.given, r.depth, default))
  ELSE default

\* The slot once get_engine has returned handle h: the request is sent and
\* the task awaits the engine's answer.
EngineRequested(r, h, default) ==
  [r EXCEPT !.pc = "engine", !.handle = h, !.sent = LimitDepth(r, default),
            !.ext = @ \cup {"engine"}]

\* get_engine, up to its await: the cached handle is returned at once;
\* with no handle cached a launch is started and the task is suspended.
get_engine(t, r) ==
  IF engine # 0
  THEN /\ inv' = [inv EXCEPT ![t] = EngineRequested(r, engine, STOCKFISH_DEPTH)]
       /\ UNCHANGED launches
  ELSE /\ launches < MaxLaunches
       /\ launches' = launches + 1
       /\ inv' = [inv EXCEPT ![t] = [r EXCEPT !.pc = "get_engine",
                                              !.ext = @ \cup {"launch"}]]

\* get_engine resumed after `await popen_uci`: on success the global is
\* assigned and returned, on failure the exception goes to the tool.
popen_uci_done(t, ok) ==
  /\ phase = "running"
  /\ inv[t].pc = "get_engine"
  /\ IF ok
     THEN LET h == Cardinality(procs) + 1
          IN  /\ engine' = h
              /\ procs' = procs \cup {h}
              /\ inv' = [inv EXCEPT ![t] = EngineRequested(inv[t], h, STOCKFISH_DEPTH)]
     ELSE /\ inv' = [inv EXCEPT ![t] =
                       Raised(inv[t], "EngineTerminatedError", "engine process died", "engine_init")]
          /\ UNCHANGED <<engine, procs>>
  /\ UNCHANGED <<launches, quits, phase, LICHESS_TOKEN, STOCKFISH_DEPTH>>

\* The engine answers an analyse / play request, or fails it.
engine_reply(t, ok) ==
  /\ phase = "running"
  /\ inv[t].pc = "engine"
  /\ LET r == inv[t]
     IN  inv' = [inv EXCEPT ![t] =
           IF ~ok THEN Raised(r, "EngineError", "engine error", "engine_request")
           ELSE IF r.tool = "analyze_position"
           THEN Returned(r, AnalysisResponse(r.fen, AnalysisInfo,
                              EffectiveDepth(r.given, r.depth, STOCKFISH_DEPTH), r.sent))
           ELSE Returned(r, BestMoveResponse(r.fen, PlayResult))]
  /\ UNCHANGED <<engine, launches, procs, quits, phase, LICHESS_TOKEN, STOCKFISH_DEPTH>>

analyze_position(t, fen, given, depth) ==
  /\ phase = "running"
  /\ inv[t].pc = "idle"
  /\ LET r == [Idle EXCEPT !.tool = "analyze_position", !.fen = fen,
                           !.given = given, !.depth = depth]
     IN  IF ~BoardParses(fen)
         THEN /\ inv' = [inv EXCEPT ![t] = Raised(r, "ValueError", "invalid fen", "position")]
              /\ UNCHANGED launches
         ELSE get_engine(t, r)
  /\ UNCHANGED <<engine, procs, quits, phase, LICHESS_TOKEN, STOCKFISH_DEPTH>>

get_best_move(t, fen) ==
  /\ phase = "running"
  /\ inv[t].pc = "idle"
  /\ LET r == [Idle EXCEPT !.tool = "get_best_move", !.fen = fen]
     IN  IF ~BoardParses(fen)
         THEN /\ inv' = [inv EXCEPT ![t] = Raised(r, "ValueError", "invalid fen", "position")]
              /\ UNCHANGED launches
         ELSE get_engine(t, r)
  /\ UNCHANGED <<engine, procs, quits, phase, LICHESS_TOKEN, STOCKFISH_DEPTH>>

\* ------------------------------------------------------ the pure tools
\* ValidateResult without the `if is_legal` around the resulting position.
ValidateResultUnguarded(fen, move_uci) ==
  [is_legal |-> move_uci \in Range(LegalMovesUci(fen)),
   move_uci |-> move_uci, original_fen |-> fen,
   move_san |-> San(fen, move_uci),
   resulting_fen |-> FenAfter(fen, move_uci),
   check |-> FALSE, checkmate |-> FALSE]

\* The body of validate_move's try block, for inputs that parse.
ValidateResult(fen, move_uci) ==
  LET is_legal == move_uci \in Range(LegalMovesUci(fen))
      result == [is_legal |-> is_legal, move_uci |-> move_uci, original_fen |-> fen]
  IN  IF is_legal
      THEN [is_legal |-> is_legal, move_uci |-> move_uci, original_fen |-> fen,
            move_san |-> San(fen, move_uci),
            resulting_fen |-> FenAfter(fen, move_uci),
            check |-> FALSE, checkmate |-> FALSE]
      ELSE result

validate_move(t, fen, move_uci) ==
  /\ phase = "running"
  /\ inv[t].pc = "idle"
  /\ LET r == [Idle EXCEPT !.tool = "validate_move", !.fen = fen, !.move = move_uci]
     IN  inv' = [inv EXCEPT ![t] =
           IF ~BoardParses(fen) THEN Raised(r, "ValueError", "invalid fen", "position")
           ELSE IF ~MoveParses(move_uci) THEN Raised(r, "ValueError", "invalid uci", "move")
           ELSE Returned(r, ValidateResult(fen, move_uci))]
  /\ UNCHANGED <<engine, launches, procs, quits, phase, LICHESS_TOKEN, STOCKFISH_DEPTH>>

\* [board.san(move) for move in board.legal_moves]
RECURSIVE SanList(_, _)
SanList(fen, moves) ==
  IF moves = <<>> THEN <<>> ELSE <<San(fen, Head(moves))>> \o SanList(fen, Tail(moves))

LegalMovesResponse(fen) ==
  [fen |-> fen,
   legal_moves_uci |-> LegalMovesUci(fen),
   legal_moves_san |-> SanList(fen, LegalMovesUci(fen)),
   count |-> Len(LegalMovesUci(fen)),
   turn |-> Turn(fen)]

get_legal_moves(t, fen) ==
  /\ phase = "running"
  /\ inv[t].pc = "idle"
  /\ LET r == [Idle EXCEPT !.tool = "get_legal_moves", !.fen = fen]
     IN  inv' = [inv EXCEPT ![t] =
           IF ~BoardParses(fen) THEN Raised(r, "ValueError", "invalid fen", "position")
           ELSE Returned(r, LegalMovesResponse(fen))]
  /\ UNCHANGED <<engine, launches, procs, quits, phase, LICHESS_TOKEN, STOCKFISH_DEPTH>>

\* -------------------------------------------------- the remote service
GoodLine == "{\"id\":\"g1\",\"speed\":\"blitz\"}"
ShapeLine == "{\"id\":\"g2\",\"players\":null}"
HtmlLine == "<html>"
LineTexts == {GoodLine, ShapeLine, HtmlLine, ""}

RECURSIVE SeqsUpTo(_, _)
SeqsUpTo(S, n) ==
  IF n = 0 THEN {<<>>}
  ELSE LET shorter == SeqsUpTo(S, n - 1)
       IN  shorter \cup {Append(q, x) : q \in shorter, x \in S}

CloudJson == "{\"depth\":30,\"knodes\":100,\"pvs\":[{\"moves\":\"a1b2 h1g2\",\"cp\":0}]}"
CloudArray == "[]"

\* What the remote service can answer to the games request.
FetchResponses ==
  {[status |-> st, lines |-> <<"error page">>] : st \in {401, 404}}
    \cup {[status |-> 200, lines |-> b] : b \in SeqsUpTo(LineTexts, MaxLines)}

\* What the remote service can answer to the cloud-eval request.
CloudResponses ==
  {[status |-> 404, lines |-> <<"{\"error\":\"Not found\"}">>]}
    \cup {[status |-> 200, lines |-> <<b>>] : b \in {CloudJson, CloudArray, HtmlLine}}

\* Failures of client.get itself (no response): connection refused, or the
\* timeout given with the request expiring.
TransportErrors == {"ConnectError", "ReadTimeout"}

\* json.loads(line) / response.json(): FALSE where it raises JSONDecodeError
JsonDecodes(text) == text \in {GoodLine, ShapeLine, CloudJson, CloudArray}

\* The chain of .get calls on the decoded value: FALSE where one of them is
\* applied to a value that is no dict (AttributeError).
GetsApply(text) == text \in {GoodLine, CloudJson}

JsonId(text) == IF text = GoodLine THEN "g1" ELSE "g2"

\* The game summary appended for one decoded record.
GameSummary(line) ==
  [id |-> JsonId(line), time_control |-> "blitz",
   url |-> "https://lichess.org/" \o JsonId(line)]

\* The loop over response.text.strip().split('\n'), from line i on with the
\* games collected so far: the exception that ends it ("none" if it ran to
\* the end) and the games.
RECURSIVE ParseLines(_, _, _)
ParseLines(lines, i, games) ==
  IF i > Len(lines) THEN [exc |-> "none", games |-> games]
  ELSE IF lines[i] = "" THEN ParseLines(lines, i + 1, games)
  ELSE IF ~JsonDecodes(lines[i]) THEN ParseLines(lines, i + 1, games)
  ELSE IF ~GetsApply(lines[i]) THEN [exc |-> "AttributeError", games |-> games]
  ELSE ParseLines(lines, i + 1, Append(games, GameSummary(lines[i])))

\* A line that is there and is no well-formed game record.
Malformed(line) == line # "" /\ ~(JsonDecodes(line) /\ GetsApply(line))

\* TokenMissing as `if LICHESS_TOKEN is None`.
TokenIsNone(token) == token = Unset

\* if not LICHESS_TOKEN
TokenMissing(token) == token = Unset \/ token = ""

ConfigurationError ==
  [error |-> "LICHESS_TOKEN environment variable not set. Please add it in Cloud Run settings.",
   status |-> "configuration_error"]

\* The mapping returned for a response whose status is not 200.
StatusErrorResponse(resp) ==
  [error |-> "Lichess API returned status",
   status_code |-> resp.status,
   response_preview |-> resp.lines,
   possible_causes |->
     << IF resp.status = 404 THEN "Username doesn't exist" ELSE "None",
        IF resp.status = 401 THEN "Authentication failed - check LICHESS_TOKEN" ELSE "None",
        IF resp.status = 403 THEN "Token permissions insufficient" ELSE "None" >>]

\* fetch_user_games from the response on.
FetchAfterResponse(r, resp) ==
  LET got == [r EXCEPT !.resp = resp, !.max = 0]
      parsed == ParseLines(resp.lines, 1, <<>>)
      f == IF \E i \in DOMAIN resp.lines : Malformed(resp.lines[i]) THEN "body" ELSE "none"
  IN  IF resp.status # 200
      THEN [Returned(got, StatusErrorResponse(resp)) EXCEPT !.fault = "http_status"]
      ELSE IF parsed.exc # "none"
      THEN Raised(got, parsed.exc, "object has no attribute 'get'", "body")
      ELSE IF parsed.games = <<>>
      THEN [Returned(got, [username |-> Username, games_count |-> 0,
                           message |-> "No games found.", games |-> <<>>])
              EXCEPT !.fault = f]
      ELSE [Returned(got, [username |-> Username, games_count |-> Len(parsed.games),
                           games |-> parsed.games])
              EXCEPT !.fault = f]

\* get_cloud_eval from the response on.
CloudAfterResponse(r, resp) ==
  LET got == [r EXCEPT !.resp = resp]
      body == resp.lines[1]
  IN  IF resp.status >= 400
      THEN Raised(got, "HTTPStatusError", "Client error", "http_status")
      ELSE IF ~JsonDecodes(body)
      THEN Raised(got, "JSONDecodeError", "Expecting value", "body")
      ELSE IF ~GetsApply(body)
      THEN Raised(got, "AttributeError", "'list' object has no attribute 'get'", "body")
      ELSE Returned(got, [fen |-> r.fen, cloud_eval |-> 0, depth |-> 30,
                          best_moves |-> <<"a1b2">>, knodes |-> 100])

\* The slot once client.get has been called: the request is out and the
\* task awaits the response.
HttpRequested(r) == [r EXCEPT !.pc = "http", !.ext = @ \cup {"http"}]

\* max_games = min(max_games, 50)
ClampGames(max_games) == IF max_games < GamesCeiling THEN max_games ELSE GamesCeiling

\* time_control is passed on to the service as it is and read by nothing
\* else; the request's "max" is kept while the request is out.
fetch_user_games(t, username, max_games) ==
  /\ phase = "running"
  /\ inv[t].pc = "idle"
  /\ LET r == [Idle EXCEPT !.tool = "fetch_user_games"]
     IN  inv' = [inv EXCEPT ![t] =
           IF TokenMissing(LICHESS_TOKEN) THEN Returned(r, ConfigurationError)
           ELSE HttpRequested([r EXCEPT !.max = ClampGames(max_games)])]
  /\ UNCHANGED <<engine, launches, procs, quits, phase, LICHESS_TOKEN, STOCKFISH_DEPTH>>

get_cloud_eval(t, fen) ==
  /\ phase = "running"
  /\ inv[t].pc = "idle"
  /\ inv' = [inv EXCEPT ![t] = HttpRequested([Idle EXCEPT !.tool = "get_cloud_eval", !.fen = fen])]
  /\ UNCHANGED <<engine, launches, procs, quits, phase, LICHESS_TOKEN, STOCKFISH_DEPTH>>

\* client.get returns a response.
http_reply(t, resp) ==
  /\ phase = "running"
  /\ inv[t].pc = "http"
  /\ resp \in (IF inv[t].tool = "fetch_user_games" THEN FetchResponses ELSE CloudResponses)
  /\ inv' = [inv EXCEPT ![t] =
       IF inv[t].tool = "fetch_user_games" THEN FetchAfterResponse(inv[t], resp)
       ELSE CloudAfterResponse(inv[t], resp)]
  /\ UNCHANGED <<engine, launches, procs, quits, phase, LICHESS_TOKEN, STOCKFISH_DEPTH>>

\* client.get raises: no connection, or no answer within timeout=30.0 / 10.0.
http_error(t, exc) ==
  /\ phase = "running"
  /\ inv[t].pc = "http"
  /\ inv' = [inv EXCEPT ![t] = Raised([inv[t] EXCEPT !.max = 0], exc, "request failed", "http_transport")]
  /\ UNCHANGED <<engine, launches, procs, quits, phase, LICHESS_TOKEN, STOCKFISH_DEPTH>>

\* ------------------------------------------------------------ the process
\* The transport takes the tool's result; the slot is free again.
Deliver(t) ==
  /\ phase = "running"
  /\ inv[t].pc \in {"returned", "raised"}
  /\ inv' = [inv EXCEPT ![t] = Idle]
  /\ UNCHANGED <<engine, launches, procs, quits, phase, LICHESS_TOKEN, STOCKFISH_DEPTH>>

\* A termination signal: uvicorn.run returns and the module ends.  Nothing
\* in the module quits the engine; the tasks end with the event loop.
Terminate ==
  /\ phase = "running"
  /\ phase' = "exited"
  /\ inv' = [t \in Tasks |-> Idle]
  /\ UNCHANGED <<engine, launches, procs, quits, LICHESS_TOKEN, STOCKFISH_DEPTH>>

\* Tool invocations run as concurrent tasks.
Next ==
  \/ \E t \in Tasks, fen \in Fens, given \in BOOLEAN :
       \E depth \in (IF given THEN Depths ELSE {0}) : analyze_position(t, fen, given, depth)
  \/ \E t \in Tasks, fen \in Fens : get_best_move(t, fen)
  \/ \E t \in Tasks, fen \in Fens, m \in MovesUci : validate_move(t, fen, m)
  \/ \E t \in Tasks, fen \in Fens : get_legal_moves(t, fen)
  \/ \E t \in Tasks, n \in GameCounts : fetch_user_games(t, Username, n)
  \/ \E t \in Tasks, fen \in Fens : get_cloud_eval(t, fen)
  \/ \E t \in Tasks, ok \in BOOLEAN : popen_uci_done(t, ok)
  \/ \E t \in Tasks, ok \in BOOLEAN : engine_reply(t, ok)
  \/ \E t \in Tasks, resp \in FetchResponses \cup CloudResponses : http_reply(t, resp)
  \/ \E t \in Tasks, exc \in TransportErrors : http_error(t, exc)
  \/ \E t \in Tasks : Deliver(t)
  \/ Terminate

Spec == Init /\ [][Next]_vars

\* The slots that may step when the caller awaits each result before its
\* next call: one invocation at a time.
Alone == {t \in Tasks : \A u \in Tasks \ {t} : inv[u].pc = "idle"}

NextOne ==
  \/ \E t \in Alone, fen \in Fens, given \in BOOLEAN :
       \E depth \in (IF given THEN Depths ELSE {0}) : analyze_position(t, fen, given, depth)
  \/ \E t \in Alone, fen \in Fens : get_best_move(t, fen)
  \/ \E t \in Alone, fen \in Fens, m \in MovesUci : validate_move(t, fen, m)
  \/ \E t \in Alone, fen \in Fens : get_legal_moves(t, fen)
  \/ \E t \in Alone, n \in GameCounts : fetch_user_games(t, Username, n)
  \/ \E t \in Alone, fen \in Fens : get_cloud_eval(t, fen)
  \/ \E t \in Alone, ok \in BOOLEAN : popen_uci_done(t, ok)
  \/ \E t \in Alone, ok \in BOOLEAN : engine_reply(t, ok)
  \/ \E t \in Alone, resp \in FetchResponses \cup CloudResponses : http_reply(t, resp)
  \/ \E t \in Alone, exc \in TransportErrors : http_error(t, exc)
  \/ \E t \in Alone : Deliver(t)
  \/ Terminate

SeqSpec == Init /\ [][NextOne]_vars

\* A launch ends, and an HTTP request ends (by its answer, or by the timeout
\* passed to client.get).  Nothing in the module bounds the wait for an
\* answer of the engine.
Fairness ==
  \A t \in Tasks :
    /\ WF_vars(\E ok \in BOOLEAN : popen_uci_done(t, ok))
    /\ WF_vars(\E exc \in TransportErrors : http_error(t, exc))

FairSpec == Spec /\ Fairness

\* ================================================================ claims
Pending(t) == inv[t].pc \in {"get_engine", "engine", "http"}
Done(t) == inv[t].pc \in {"returned", "raised"}
HasError(t) == "error" \in DOMAIN inv[t].ret

\* C1: under concurrent first use the engine process is launched at most
\* once: never two launches in flight, never two engine processes, and all
\* callers that got a handle got the same one.
C1_SingleLaunch ==
  /\ Cardinality({t \in Tasks : inv[t].pc = "get_engine"}) <= 1
  /\ Cardinality(procs) <= 1
  /\ \A t, u \in Tasks : inv[t].handle # 0 /\ inv[u].handle # 0 => inv[t].handle = inv[u].handle

\* C2: once the process has exited after a termination signal, every handle
\* that was created has been sent its quit request exactly once and is no
\* longer running.
C2_QuitAtExit ==
  phase = "exited" => \A h \in procs \cup {k \in Handles : quits[k] > 0} :
                        quits[h] = 1 /\ h \notin procs

\* C3 (as stated): no exception leaves a tool, and a result that follows a
\* delegate's failure always carries an `error` field.
C3_ErrorOnEveryFailure ==
  \A t \in Tasks :
    /\ inv[t].pc # "raised"
    /\ inv[t].pc = "returned" /\ inv[t].fault # "none" => HasError(t)

\* In fetch_user_games, the only failure was lines that are not JSON.
OnlyUndecodableLines(t) ==
  /\ inv[t].tool = "fetch_user_games"
  /\ inv[t].fault = "body"
  /\ \A i \in DOMAIN inv[t].resp.lines :
       inv[t].resp.lines[i] \in {"", GoodLine, HtmlLine}

\* C3 (amended): no exception leaves a tool, every result is a mapping, and
\* a result that follows a delegate's failure carries an `error` field,
\* except that fetch_user_games skips response lines that are not JSON and
\* then returns a success mapping.
C3_ErrorOnFailureUnlessSkipped ==
  \A t \in Tasks :
    /\ inv[t].pc # "raised"
    /\ inv[t].pc = "returned" => DOMAIN inv[t].ret # {}
    /\ inv[t].pc = "returned" /\ inv[t].fault # "none" /\ ~OnlyUndecodableLines(t)
         => HasError(t)

\* C3 witness: analyze_position has returned an error mapping after the
\* engine failed to start.
C3_Witness ==
  \E t \in Tasks :
    /\ inv[t].pc = "returned" /\ inv[t].tool = "analyze_position"
    /\ inv[t].fault = "engine_init" /\ HasError(t)

PositionTools ==
  {"analyze_position", "get_best_move", "validate_move", "get_legal_moves", "get_cloud_eval"}

\* C4: a tool given a position that does not parse makes no external call
\* (no launch, no engine request, no HTTP request) and fails with an error.
C4_ValidationBeforeExternalCall ==
  \A t \in Tasks :
    inv[t].tool \in PositionTools /\ ~BoardParses(inv[t].fen)
      => /\ inv[t].ext = {}
         /\ Done(t) => HasError(t)

\* The summaries of the well-formed records among lines, in order.
RECURSIVE ValidRecords(_)
ValidRecords(lines) ==
  IF lines = <<>> THEN <<>>
  ELSE IF Head(lines) # "" /\ ~Malformed(Head(lines))
       THEN <<GameSummary(Head(lines))>> \o ValidRecords(Tail(lines))
       ELSE ValidRecords(Tail(lines))

\* C5: after a 200 response fetch_user_games returns, without an `error`
\* field, exactly the well-formed records of the body, and games_count is
\* their number, whatever malformed records the body holds.
C5_MalformedRecordsSkipped ==
  \A t \in Tasks :
    inv[t].tool = "fetch_user_games" /\ Done(t) /\ inv[t].resp.status = 200
      => /\ inv[t].pc = "returned"
         /\ ~HasError(t)
         /\ inv[t].ret.games = ValidRecords(inv[t].resp.lines)
         /\ inv[t].ret.games_count = Len(inv[t].ret.games)

\* C6: a launch is attempted only with no handle cached, a cached handle is
\* never replaced, and a failed launch leaves the cache as it was.
C6_FirstWriteWins ==
  [][ /\ launches' > launches => engine = 0
      /\ engine # 0 => engine' = engine
      /\ engine' # engine => Cardinality(procs') > Cardinality(procs) ]_vars

ResultingFields == {"move_san", "resulting_fen", "check", "checkmate"}

\* C7: validate_move on a malformed position or move gives is_legal false
\* with an error; on a well-formed illegal move is_legal false, the inputs
\* echoed, no error and no resulting-position field; on a legal move
\* is_legal true with all four resulting-position fields.
C7_ThreeOutcomes ==
  \A t \in Tasks :
    inv[t].tool = "validate_move" /\ inv[t].pc # "idle"
      => LET r == inv[t]
             legal == r.move \in Range(LegalMovesUci(r.fen))
         IN  /\ r.pc = "returned"
             /\ r.ret.is_legal = (BoardParses(r.fen) /\ MoveParses(r.move) /\ legal)
             /\ ~(BoardParses(r.fen) /\ MoveParses(r.move)) => HasError(t)
             /\ BoardParses(r.fen) /\ MoveParses(r.move) /\ ~legal
                  => /\ ~HasError(t)
                     /\ DOMAIN r.ret \cap ResultingFields = {}
                     /\ r.ret.move_uci = r.move /\ r.ret.original_fen = r.fen
             /\ BoardParses(r.fen) /\ MoveParses(r.move) /\ legal
                  => ~HasError(t) /\ ResultingFields \subseteq DOMAIN r.ret

\* C7 witness: validate_move has answered a well-formed illegal move.
C7_Witness ==
  \E t \in Tasks :
    /\ inv[t].tool = "validate_move" /\ inv[t].pc = "returned"
    /\ inv[t].fen = KingsFen /\ inv[t].move = "a1a3"
    /\ inv[t].ret.is_legal = FALSE /\ ~HasError(t)

\* C8: the depth analyze_position passes to the engine is at most 25, and a
\* successful response reports the depth that was passed.
C8_DepthClamped ==
  \A t \in Tasks :
    inv[t].tool = "analyze_position" /\ "engine" \in inv[t].ext
      => /\ inv[t].sent <= 25
         /\ inv[t].pc = "returned" /\ ~HasError(t) => inv[t].ret.depth = inv[t].sent

\* C8 witness: analyze_position asked for a depth above 25 has returned
\* a success mapping reporting 25.
C8_Witness ==
  \E t \in Tasks :
    /\ inv[t].tool = "analyze_position" /\ inv[t].pc = "returned" /\ ~HasError(t)
    /\ inv[t].given /\ inv[t].depth > 25 /\ inv[t].ret.depth = 25

\* C9: every invocation that waits for the engine or for the remote service
\* eventually returns (or the process has exited).
C9_EveryInvocationReturns ==
  \A t \in Tasks : Pending(t) ~> (inv[t].pc = "returned" \/ phase = "exited")

\* C10: with no credential configured, fetch_user_games returns the
\* configuration error (an `error` field and the configuration_error
\* marker) and issues no HTTP request.
C10_NoCredentialNoRequest ==
  \A t \in Tasks :
    inv[t].tool = "fetch_user_games" /\ LICHESS_TOKEN \in {Unset, ""}
      => /\ inv[t].pc = "returned"
         /\ HasError(t)
         /\ "status" \in DOMAIN inv[t].ret /\ inv[t].ret.status = "configuration_error"
         /\ "http" \notin inv[t].ext

\* C10 witness: fetch_user_games has returned with LICHESS_TOKEN unset.
C10_Witness ==
  \E t \in Tasks :
    /\ inv[t].tool = "fetch_user_games" /\ LICHESS_TOKEN = Unset
    /\ inv[t].pc = "returned" /\ HasError(t)

====
